---- MODULE Spec2Model ----
(***************************************************************************)
(* Model of the conversation store (ConversationManager) and of the HTTP   *)
(* handlers of server.js that drive it.                                    *)
(*                                                                         *)
(* Time is the millisecond clock read by `new Date()` / `Date.now()`.      *)
(* A timestamp string produced by toISOString() and parsed back by         *)
(* `new Date(string)` denotes the same millisecond, so timestamps are kept *)
(* as the millisecond count they denote.                                   *)
(* A text (message content, prompt) is a sequence of fragments; the empty  *)
(* text is << >>, which is the falsy value of `!message`.                  *)
(***************************************************************************)
EXTENDS Integers, Sequences, FiniteSets, TLC

\* ---------------------------------------------------------------- bounds
MaxH == 2              \* largest configured history bound (HistoryBounds)
MaxNowMinutes == 120   \* the clock stops advancing after this many minutes
MaxSessions == 1       \* sessions held by the store at one time
MaxInFlight == 1       \* /api/chat requests that can be in flight together
MaxK == 2              \* TrimSpec appends up to maxHistoryLength + MaxK messages
MaxSkewMs == 2         \* ClockSpec: ms the clock advances in all during calls

\* ------------------------------------------------------ program constants
DefaultMaxHistoryLength == 20
CleanupThresholdMinutes == 60
SweepIntervalMinutes == 30
MsPerMinute == 1000 * 60

\* ------------------------------------------------------------ input sets
Rands == {1, 2}                          \* outcomes of Math.random() in an id
NoId == << >>                            \* a missing (falsy) sessionId
UnknownId == <<0, 0>>                    \* a well-formed id never generated
CallerIds == {<<0, 1>>, <<0, 2>>}        \* ids a direct caller of the store uses
PromptTypes == {"DEBUG_HELPER"}          \* the mode a session is created with
Contexts == {{"studentLevel"}}           \* the context fields that are present
Texts == {<<"m">>}                       \* a non-empty message text
NoText == << >>                          \* a missing (falsy) message
Roles == {"system", "user", "assistant"}
Thresholds == {0, CleanupThresholdMinutes}
AtThreshold == CleanupThresholdMinutes * MsPerMinute
PastThreshold == (CleanupThresholdMinutes + 1) * MsPerMinute
Deltas == {AtThreshold, PastThreshold}   \* clock advances of StoreSpec
LongDeltas == {PastThreshold}            \* clock advances of Spec
Turns == 1..MaxInFlight
\* values of this.maxHistoryLength: the constructor assigns
\* DefaultMaxHistoryLength; the small values make the trim happen within a
\* few appends, and TrimInit adds the default
HistoryBounds == 2..MaxH
\* ms the clock advances between two consecutive reads within one call
Skews == {0, 1}
\* the metadata objects a direct caller passes to updateMetadata
Partials == {[a |-> 1], [b |-> 2], [a |-> 3]}

VARIABLES
  maxHistoryLength,  \* this.maxHistoryLength
  conversations,     \* this.conversations : id -> conversation
  now,               \* the clock, in ms
  configured,        \* openaiService.isConfigured()
  turn,              \* the /api/chat requests: position and locals of each
  ret,               \* what the last direct call of the store returned
  appended           \* TrimSpec: the messages appended to its session so far

vars == <<maxHistoryLength, conversations, now, configured, turn, ret, appended>>

NoRet == [op |-> "none", arg |-> NoId, found |-> FALSE, value |-> << >>]
IdleTurn == [pc |-> "idle", sessionId |-> NoId, message |-> NoText,
             snapshot |-> << >>, status |-> 0, stored |-> FALSE, retry |-> FALSE]

Min(a, b) == IF a < b THEN a ELSE b
Max(a, b) == IF a > b THEN a ELSE b

\* Array.prototype.slice(start) of JavaScript, one argument.
JsSlice(s, start) ==
  LET len == Len(s)
      k == IF start < 0 THEN Max(len + start, 0) ELSE Min(start, len)
  IN SubSeq(s, k + 1, len)

\* ------------------------------------------------------------- prompts
KnownPrompts == {"TP_ASSISTANT", "PROGRAMMING_TUTOR", "DEBUG_HELPER"}

\* SYSTEM_PROMPTS[promptType] || SYSTEM_PROMPTS.TP_ASSISTANT
BasePrompt(promptType) ==
  IF promptType \in KnownPrompts THEN <<promptType>> ELSE <<"TP_ASSISTANT">>

Clause(context, field) == IF field \in context THEN <<field>> ELSE << >>

buildSystemPrompt(basePrompt, context) ==
  basePrompt \o Clause(context, "tpSubject") \o Clause(context, "tpObjectives")
             \o Clause(context, "studentLevel") \o Clause(context, "constraints")

\* ------------------------------------------------- ConversationManager
Remove(convs, ids) == [i \in DOMAIN convs \ ids |-> convs[i]]
Put(convs, id, conv) ==
  [i \in DOMAIN convs \cup {id} |-> IF i = id THEN conv ELSE convs[i]]

Message(role, content, t) == [role |-> role, content |-> content, timestamp |-> t]

\* createConversation reads the clock three times: t1 for the timestamp of
\* the system message, t2 for createdAt, t3 for lastActivity
createConversationAtBugSwapped(convs, sessionId, systemPrompt, t1, t2, t3) ==
  Put(convs, sessionId,
      [id |-> sessionId,
       messages |-> <<Message("system", systemPrompt, t1)>>,
       createdAt |-> t3,
       lastActivity |-> t2,
       metadata |-> << >>])

createConversationAt(convs, sessionId, systemPrompt, t1, t2, t3) ==
  Put(convs, sessionId,
      [id |-> sessionId,
       messages |-> <<Message("system", systemPrompt, t1)>>,
       createdAt |-> t2,
       lastActivity |-> t3,
       metadata |-> << >>])

\* the call during which the clock does not advance
createConversation(convs, sessionId, systemPrompt, t) ==
  createConversationAt(convs, sessionId, systemPrompt, t, t, t)

\* the trim of addMessage, on the list after the push
TrimBugKeepsOldest(messages, H) ==
  IF Len(messages) > H THEN SubSeq(messages, 1, H) ELSE messages

TrimBugDuplicatesSystem(messages, H) ==
  IF Len(messages) > H THEN <<messages[1]>> \o messages ELSE messages

TrimBugEvictsSystem(messages, H) ==
  IF Len(messages) > H THEN JsSlice(messages, 0 - H) ELSE messages

TrimBugOffByOne(messages, H) ==
  IF Len(messages) > H
    THEN <<messages[1]>> \o JsSlice(messages, 0 - H)
    ELSE messages

Trim(messages, H) ==
  IF Len(messages) > H
    THEN <<messages[1]>> \o JsSlice(messages, (0 - H) + 1)
    ELSE messages

addMessageBugCreates(convs, H, sessionId, role, content, t) ==
  IF sessionId \notin DOMAIN convs
    THEN createConversation(convs, sessionId, content, t)
    ELSE [convs EXCEPT ![sessionId] =
            [@ EXCEPT !.messages = Trim(Append(@, Message(role, content, t)), H),
                      !.lastActivity = t]]

\* addMessage reads the clock twice: t1 for the timestamp of the message,
\* t2 for lastActivity
addMessageAt(convs, H, sessionId, role, content, t1, t2) ==
  IF sessionId \notin DOMAIN convs
    THEN convs
    ELSE [convs EXCEPT ![sessionId] =
            [@ EXCEPT !.messages = Trim(Append(@, Message(role, content, t1)), H),
                      !.lastActivity = t2]]

\* the call during which the clock does not advance
addMessage(convs, H, sessionId, role, content, t) ==
  addMessageAt(convs, H, sessionId, role, content, t, t)

addMessageResult(convs, sessionId) == sessionId \in DOMAIN convs

getMessagesBugOmitsLast(convs, sessionId) ==
  IF sessionId \notin DOMAIN convs
    THEN << >>
    ELSE [i \in 1..(Len(convs[sessionId].messages) - 1) |->
            [role |-> convs[sessionId].messages[i].role,
             content |-> convs[sessionId].messages[i].content]]

getMessages(convs, sessionId) ==
  IF sessionId \notin DOMAIN convs
    THEN << >>
    ELSE [i \in 1..Len(convs[sessionId].messages) |->
            [role |-> convs[sessionId].messages[i].role,
             content |-> convs[sessionId].messages[i].content]]

\* { ...conversation.metadata, ...metadata }
MergeBugReplaces(old, partial) == partial

Merge(old, partial) ==
  [k \in DOMAIN old \cup DOMAIN partial |->
     IF k \in DOMAIN partial THEN partial[k] ELSE old[k]]

updateMetadataResult(convs, sessionId) == sessionId \in DOMAIN convs

updateMetadataBugCountsAsActivity(convs, sessionId, partial) ==
  IF sessionId \notin DOMAIN convs
    THEN convs
    ELSE [convs EXCEPT ![sessionId].metadata = Merge(@, partial),
                       ![sessionId].lastActivity = @ + MsPerMinute]

updateMetadata(convs, sessionId, partial) ==
  IF sessionId \notin DOMAIN convs
    THEN convs
    ELSE [convs EXCEPT ![sessionId].metadata = Merge(@, partial)]

\* this.conversations.delete(sessionId): the store it leaves, what it returns
deleteConversation(convs, sessionId) == Remove(convs, {sessionId})

deleteConversationResultBugAlwaysTrue(convs, sessionId) == TRUE

deleteConversationResult(convs, sessionId) == sessionId \in DOMAIN convs

resetConversationBugResetsAll(convs, sessionId, t) ==
  IF sessionId \notin DOMAIN convs
    THEN convs
    ELSE [i \in DOMAIN convs |->
            [convs[i] EXCEPT !.messages = <<@[1]>>, !.lastActivity = t]]

resetConversationBugClearsMetadata(convs, sessionId, t) ==
  IF sessionId \notin DOMAIN convs
    THEN convs
    ELSE [convs EXCEPT ![sessionId] =
            [@ EXCEPT !.messages = <<@[1]>>, !.lastActivity = t,
                      !.metadata = << >>]]

resetConversationBugKeepsAll(convs, sessionId, t) ==
  IF sessionId \notin DOMAIN convs
    THEN convs
    ELSE [convs EXCEPT ![sessionId].lastActivity = t]

resetConversation(convs, sessionId, t) ==
  IF sessionId \notin DOMAIN convs
    THEN convs
    ELSE [convs EXCEPT ![sessionId] =
            [@ EXCEPT !.messages = <<@[1]>>, !.lastActivity = t]]

CountRole(messages, role) ==
  Cardinality({i \in 1..Len(messages) : messages[i].role = role})

getStatsBugCountsSystem(convs, sessionId) ==
  LET c == convs[sessionId]
  IN [totalMessages |-> Len(c.messages),
      userMessages |-> CountRole(c.messages, "user"),
      assistantMessages |-> CountRole(c.messages, "assistant"),
      createdAt |-> c.createdAt,
      lastActivity |-> c.lastActivity,
      metadata |-> c.metadata]

getStats(convs, sessionId) ==
  LET c == convs[sessionId]
  IN [totalMessages |-> Len(c.messages) - 1,
      userMessages |-> CountRole(c.messages, "user"),
      assistantMessages |-> CountRole(c.messages, "assistant"),
      createdAt |-> c.createdAt,
      lastActivity |-> c.lastActivity,
      metadata |-> c.metadata]

\* inactiveMinutes > maxInactiveMinutes, with inactiveMinutes the real
\* quotient (t - lastActivity) / (1000 * 60)
InactiveBugAtThreshold(conv, t, maxInactiveMinutes) ==
  t - conv.lastActivity >= maxInactiveMinutes * MsPerMinute

Inactive(conv, t, maxInactiveMinutes) ==
  t - conv.lastActivity > maxInactiveMinutes * MsPerMinute

\* the loop of cleanupInactive over the entries still to visit:
\* the store and the count it ends with
RECURSIVE CleanupLoop(_, _, _, _, _)
CleanupLoop(convs, todo, t, maxInactiveMinutes, deletedCount) ==
  IF todo = {}
    THEN [convs |-> convs, deletedCount |-> deletedCount]
    ELSE LET sessionId == CHOOSE i \in todo : TRUE
         IN IF Inactive(convs[sessionId], t, maxInactiveMinutes)
              THEN CleanupLoop(Remove(convs, {sessionId}), todo \ {sessionId},
                               t, maxInactiveMinutes, deletedCount + 1)
              ELSE CleanupLoop(convs, todo \ {sessionId},
                               t, maxInactiveMinutes, deletedCount)

cleanupInactive(convs, t, maxInactiveMinutes) ==
  CleanupLoop(convs, DOMAIN convs, t, maxInactiveMinutes, 0)

MessagesOf(sessionId) == conversations[sessionId].messages
Last(messages) == messages[Len(messages)]

\* ---------------------------------------------------------------- Init
Init ==
  /\ maxHistoryLength \in HistoryBounds
  /\ conversations = << >>
  /\ now = 0
  /\ configured \in BOOLEAN
  /\ turn = [t \in Turns |-> IdleTurn]
  /\ ret = NoRet
  /\ appended = << >>

\* ------------------------------------------------------------ the clock
Tick(d) ==
  /\ now + d <= MaxNowMinutes * MsPerMinute
  /\ now' = now + d
  /\ ret' = NoRet
  /\ UNCHANGED <<maxHistoryLength, conversations, configured, turn, appended>>

\* ------------------------------------------------ handlers of server.js
\* `session_${Date.now()}_${Math.random()...}`
SessionId(t, r) == <<t, r>>

\* POST /api/sessions
CreateSession(r, promptType, context) ==
  LET sessionId == SessionId(now, r)
      systemPrompt == buildSystemPrompt(BasePrompt(promptType), context)
      created == createConversation(conversations, sessionId, systemPrompt, now)
  IN /\ Cardinality(DOMAIN conversations \cup {sessionId}) <= MaxSessions
     /\ conversations' = updateMetadata(created, sessionId,
                            [promptType |-> promptType, context |-> context])
     /\ UNCHANGED <<maxHistoryLength, now, configured, turn, ret, appended>>

\* ids a request can name: those in the store, a well-formed one that is
\* not in the store, a missing one
RequestIds == DOMAIN conversations \cup {UnknownId, NoId}

\* the three checks of POST /api/chat before the user message is appended:
\* the status of the early return, or 0 when all three pass
ChatValidateBugReadyFirst(convs, isConfigured, sessionId, message) ==
  IF sessionId = NoId \/ message = NoText THEN 400
  ELSE IF ~isConfigured THEN 503
  ELSE IF sessionId \notin DOMAIN convs THEN 404
  ELSE 0

ChatValidate(convs, isConfigured, sessionId, message) ==
  IF sessionId = NoId \/ message = NoText THEN 400
  ELSE IF sessionId \notin DOMAIN convs THEN 404
  ELSE IF ~isConfigured THEN 503
  ELSE 0

\* POST /api/chat, from the request up to the await of openaiService.chat
ChatRequest(t, sessionId, message) ==
  LET status == ChatValidate(conversations, configured, sessionId, message)
      withUser == addMessage(conversations, maxHistoryLength, sessionId,
                             "user", message, now)
  IN /\ turn[t].pc # "awaiting"
     /\ IF status # 0
          THEN /\ turn' = [turn EXCEPT ![t] =
                    [IdleTurn EXCEPT !.pc = "done", !.status = status]]
               /\ UNCHANGED conversations
          ELSE /\ conversations' = withUser
               /\ turn' = [turn EXCEPT ![t] =
                    [pc |-> "awaiting", sessionId |-> sessionId,
                     message |-> message,
                     snapshot |-> getMessages(withUser, sessionId),
                     status |-> 0,
                     stored |-> addMessageResult(conversations, sessionId),
                     retry |-> /\ turn[t].pc = "done"
                               /\ turn[t].status = 500
                               /\ turn[t].sessionId = sessionId
                               /\ turn[t].message = message]]
     /\ UNCHANGED <<maxHistoryLength, now, configured, ret, appended>>

\* what POST /api/chat does to the store when the completion call failed
OnFailureBugRollsBack(convs, sessionId) ==
  IF sessionId \in DOMAIN convs /\ Len(convs[sessionId].messages) > 1
    THEN [convs EXCEPT ![sessionId].messages = SubSeq(@, 1, Len(@) - 1)]
    ELSE convs

OnFailure(convs, sessionId) == convs

\* POST /api/chat resumes with response.success false
ChatCompletionFails(t) ==
  /\ turn[t].pc = "awaiting"
  /\ conversations' = OnFailure(conversations, turn[t].sessionId)
  /\ turn' = [turn EXCEPT ![t] =
       [IdleTurn EXCEPT !.pc = "done", !.status = 500,
                        !.sessionId = turn[t].sessionId,
                        !.message = turn[t].message]]
  /\ UNCHANGED <<maxHistoryLength, now, configured, ret, appended>>

\* what POST /api/chat does to the store when the completion call succeeded
OnSuccessBugRecreates(convs, H, sessionId, reply, t) ==
  IF sessionId \in DOMAIN convs
    THEN addMessage(convs, H, sessionId, "assistant", reply, t)
    ELSE createConversation(convs, sessionId, reply, t)

OnSuccessBugNoAppend(convs, H, sessionId, reply, t) == convs

OnSuccessBugAppendsAsUser(convs, H, sessionId, reply, t) ==
  addMessage(convs, H, sessionId, "user", reply, t)

OnSuccess(convs, H, sessionId, reply, t) ==
  addMessage(convs, H, sessionId, "assistant", reply, t)

\* POST /api/chat resumes with response.success true
ChatCompletionSucceeds(t, reply) ==
  /\ turn[t].pc = "awaiting"
  /\ conversations' = OnSuccess(conversations, maxHistoryLength,
                                turn[t].sessionId, reply, now)
  /\ turn' = [turn EXCEPT ![t] =
       [IdleTurn EXCEPT !.pc = "done", !.status = 200,
                        !.sessionId = turn[t].sessionId,
                        !.retry = turn[t].retry,
                        !.stored = addMessageResult(conversations,
                                                    turn[t].sessionId)]]
  /\ UNCHANGED <<maxHistoryLength, now, configured, ret, appended>>

\* ids a reset or delete request can name
PathIds == DOMAIN conversations \cup {UnknownId}

\* POST /api/sessions/:sessionId/reset
ResetSession(sessionId) ==
  /\ conversations' = resetConversation(conversations, sessionId, now)
  /\ UNCHANGED <<maxHistoryLength, now, configured, turn, ret, appended>>

\* DELETE /api/sessions/:sessionId
DeleteSession(sessionId) ==
  /\ conversations' = deleteConversation(conversations, sessionId)
  /\ UNCHANGED <<maxHistoryLength, now, configured, turn, ret, appended>>

\* the setInterval callback: cleanupInactive(60)
CleanupTimer ==
  /\ conversations' =
       cleanupInactive(conversations, now, CleanupThresholdMinutes).convs
  /\ UNCHANGED <<maxHistoryLength, now, configured, turn, ret, appended>>

Next ==
  \/ \E d \in LongDeltas : Tick(d)
  \/ \E r \in Rands, p \in PromptTypes, c \in Contexts : CreateSession(r, p, c)
  \/ \E t \in Turns, i \in RequestIds, m \in Texts \cup {NoText} :
       ChatRequest(t, i, m)
  \/ \E t \in Turns : ChatCompletionFails(t)
  \/ \E t \in Turns, a \in Texts : ChatCompletionSucceeds(t, a)
  \/ \E i \in PathIds : ResetSession(i)
  \/ \E i \in PathIds : DeleteSession(i)
  \/ CleanupTimer

Spec == Init /\ [][Next]_vars

\* ------------------------------- direct calls of conversationManager
\* what getConversation, getMessages and getStats do to the store
OnReadBugTouches(convs, sessionId, t) ==
  IF sessionId \in DOMAIN convs
    THEN [convs EXCEPT ![sessionId].lastActivity = t]
    ELSE convs

OnRead(convs, sessionId, t) == convs

Returned(op, arg, found, value) ==
  [op |-> op, arg |-> arg, found |-> found, value |-> value]

CallCreateConversation(sessionId, systemPrompt) ==
  /\ conversations' = createConversation(conversations, sessionId, systemPrompt, now)
  /\ ret' = Returned("createConversation", sessionId, TRUE,
                     conversations'[sessionId])
  /\ UNCHANGED <<maxHistoryLength, now, configured, turn, appended>>

CallGetConversation(sessionId) ==
  /\ ret' = IF sessionId \in DOMAIN conversations
              THEN Returned("getConversation", sessionId, TRUE,
                            conversations[sessionId])
              ELSE Returned("getConversation", sessionId, FALSE, << >>)
  /\ conversations' = OnRead(conversations, sessionId, now)
  /\ UNCHANGED <<maxHistoryLength, now, configured, turn, appended>>

CallAddMessage(sessionId, role, content) ==
  /\ conversations' = addMessage(conversations, maxHistoryLength, sessionId,
                                 role, content, now)
  /\ ret' = Returned("addMessage", sessionId,
                     addMessageResult(conversations, sessionId), << >>)
  /\ UNCHANGED <<maxHistoryLength, now, configured, turn, appended>>

CallGetMessages(sessionId) ==
  /\ ret' = Returned("getMessages", sessionId, sessionId \in DOMAIN conversations,
                     getMessages(conversations, sessionId))
  /\ conversations' = OnRead(conversations, sessionId, now)
  /\ UNCHANGED <<maxHistoryLength, now, configured, turn, appended>>

CallResetConversation(sessionId) ==
  /\ conversations' = resetConversation(conversations, sessionId, now)
  /\ ret' = Returned("resetConversation", sessionId,
                     sessionId \in DOMAIN conversations, << >>)
  /\ UNCHANGED <<maxHistoryLength, now, configured, turn, appended>>

CallDeleteConversation(sessionId) ==
  /\ conversations' = deleteConversation(conversations, sessionId)
  /\ ret' = Returned("deleteConversation", sessionId,
                     deleteConversationResult(conversations, sessionId), << >>)
  /\ UNCHANGED <<maxHistoryLength, now, configured, turn, appended>>

CallCleanupInactive(maxInactiveMinutes) ==
  LET r == cleanupInactive(conversations, now, maxInactiveMinutes)
  IN /\ conversations' = r.convs
     /\ ret' = Returned("cleanupInactive", <<maxInactiveMinutes>>, TRUE,
                        <<r.deletedCount>>)
     /\ UNCHANGED <<maxHistoryLength, now, configured, turn, appended>>

CallGetStats(sessionId) ==
  /\ ret' = IF sessionId \in DOMAIN conversations
              THEN Returned("getStats", sessionId, TRUE,
                            getStats(conversations, sessionId))
              ELSE Returned("getStats", sessionId, FALSE, << >>)
  /\ conversations' = OnRead(conversations, sessionId, now)
  /\ UNCHANGED <<maxHistoryLength, now, configured, turn, appended>>

Prompts == {buildSystemPrompt(BasePrompt(p), c) : p \in PromptTypes, c \in Contexts}

StoreNext ==
  \/ \E d \in Deltas : Tick(d)
  \/ \E i \in CallerIds, p \in Prompts : CallCreateConversation(i, p)
  \/ \E i \in CallerIds : CallGetConversation(i)
  \/ \E i \in CallerIds, ro \in Roles, c \in Texts : CallAddMessage(i, ro, c)
  \/ \E i \in CallerIds : CallGetMessages(i)
  \/ \E i \in CallerIds : CallResetConversation(i)
  \/ \E i \in CallerIds : CallDeleteConversation(i)
  \/ \E m \in Thresholds : CallCleanupInactive(m)
  \/ \E i \in CallerIds : CallGetStats(i)

StoreSpec == Init /\ [][StoreNext]_vars

\* ------------------------- appending to a fresh session, alternating
TrimId == <<0, 1>>
Text(n) == <<"m", ToString(n)>>          \* the text of the n-th appended message
AlternatingRole(n) == IF n % 2 = 1 THEN "user" ELSE "assistant"
FreshSystemMessage == Message("system", BasePrompt("TP_ASSISTANT"), 0)

TrimInit ==
  /\ maxHistoryLength \in HistoryBounds \cup {DefaultMaxHistoryLength}
  /\ conversations = createConversation(<< >>, TrimId, BasePrompt("TP_ASSISTANT"), 0)
  /\ now = 0
  /\ configured = TRUE
  /\ turn = [t \in Turns |-> IdleTurn]
  /\ ret = NoRet
  /\ appended = << >>

\* addMessage(TrimId, role, text) with the next role and the next text
AppendNext ==
  LET n == Len(appended) + 1
  IN /\ n <= maxHistoryLength + MaxK
     /\ conversations' = addMessage(conversations, maxHistoryLength, TrimId,
                                    AlternatingRole(n), Text(n), now)
     /\ appended' = Append(appended, Message(AlternatingRole(n), Text(n), now))
     /\ ret' = NoRet
     /\ UNCHANGED <<maxHistoryLength, now, configured, turn>>

TrimNext ==
  \/ AppendNext
  \/ \E d \in Deltas : Tick(d)

TrimSpec == TrimInit /\ [][TrimNext]_vars

\* resetConversation(TrimId); `appended` starts again
ResetLog ==
  /\ conversations' = resetConversation(conversations, TrimId, now)
  /\ appended' = << >>
  /\ ret' = NoRet
  /\ UNCHANGED <<maxHistoryLength, now, configured, turn>>

LogNext ==
  \/ AppendNext
  \/ ResetLog
  \/ \E d \in Deltas : Tick(d)

LogSpec == TrimInit /\ [][LogNext]_vars

\* maxHistoryLength set to 1 or less (`conversationManager.maxHistoryLength
\* = 1`; the constructor assigns 20 and nothing clamps the field)
DegenerateBounds == {0 - 1, 0, 1}

DegenerateInit ==
  /\ maxHistoryLength \in DegenerateBounds
  /\ conversations = createConversation(<< >>, TrimId, BasePrompt("TP_ASSISTANT"), 0)
  /\ now = 0
  /\ configured = TRUE
  /\ turn = [t \in Turns |-> IdleTurn]
  /\ ret = NoRet
  /\ appended = << >>

DegenerateNext ==
  \/ LogNext
  \/ CallGetMessages(TrimId)

DegenerateSpec == DegenerateInit /\ [][DegenerateNext]_vars

\* ------------------- direct calls, with the metadata of the sessions
CallUpdateMetadata(sessionId, partial) ==
  /\ conversations' = updateMetadata(conversations, sessionId, partial)
  /\ ret' = Returned("updateMetadata", sessionId,
                     updateMetadataResult(conversations, sessionId), << >>)
  /\ UNCHANGED <<maxHistoryLength, now, configured, turn, appended>>

\* the caller creates its session under MetaId and calls the other
\* operations with MetaId and with an id it never created
MetaId == <<0, 1>>

MetaNext ==
  \/ \E d \in LongDeltas : Tick(d)
  \/ \E p \in Prompts : CallCreateConversation(MetaId, p)
  \/ \E i \in CallerIds : CallGetConversation(i)
  \/ \E i \in CallerIds, ro \in Roles, c \in Texts : CallAddMessage(i, ro, c)
  \/ \E i \in CallerIds : CallGetMessages(i)
  \/ \E i \in CallerIds, p \in Partials : CallUpdateMetadata(i, p)
  \/ \E i \in CallerIds : CallResetConversation(i)
  \/ \E i \in CallerIds : CallDeleteConversation(i)
  \/ \E i \in CallerIds : CallGetStats(i)

MetaSpec == Init /\ [][MetaNext]_vars

\* ---------------- direct calls during which the clock can advance
\* the clock can advance by d more ms while a call runs
SkewAllowed(d) == (now % MsPerMinute) + d <= MaxSkewMs

ClockCreateConversation(systemPrompt, d1, d2) ==
  /\ SkewAllowed(d1 + d2)
  /\ conversations' = createConversationAt(conversations, MetaId, systemPrompt,
                                           now, now + d1, now + d1 + d2)
  /\ now' = now + d1 + d2
  /\ ret' = Returned("createConversation", MetaId, TRUE, conversations'[MetaId])
  /\ UNCHANGED <<maxHistoryLength, configured, turn, appended>>

ClockAddMessage(sessionId, role, content, d) ==
  /\ SkewAllowed(d)
  /\ conversations' = addMessageAt(conversations, maxHistoryLength, sessionId,
                                   role, content, now, now + d)
  /\ now' = now + d
  /\ ret' = Returned("addMessage", sessionId,
                     addMessageResult(conversations, sessionId), << >>)
  /\ UNCHANGED <<maxHistoryLength, configured, turn, appended>>

ClockNext ==
  \/ \E d \in LongDeltas : Tick(d)
  \/ \E p \in Prompts, d1, d2 \in Skews : ClockCreateConversation(p, d1, d2)
  \/ \E ro \in Roles, c \in Texts, d \in Skews :
       ClockAddMessage(MetaId, ro, c, d)
  \/ CallResetConversation(MetaId)
  \/ \E p \in Partials : CallUpdateMetadata(MetaId, p)
  \/ CallDeleteConversation(MetaId)

ClockSpec == Init /\ [][ClockNext]_vars

\* ------------- two sessions: direct calls and one turn at a time
IsolationNext ==
  \/ \E d \in LongDeltas : Tick(d)
  \/ \E i \in CallerIds, p \in Prompts : CallCreateConversation(i, p)
  \/ \E i \in CallerIds, c \in Texts : CallAddMessage(i, "user", c)
  \/ \E i \in CallerIds : CallUpdateMetadata(i, [a |-> 1])
  \/ \E i \in CallerIds : CallResetConversation(i)
  \/ \E i \in CallerIds : CallDeleteConversation(i)
  \/ \E i \in RequestIds, m \in Texts \cup {NoText} : ChatRequest(1, i, m)
  \/ ChatCompletionFails(1)
  \/ \E a \in Texts : ChatCompletionSucceeds(1, a)

IsolationSpec == Init /\ [][IsolationNext]_vars

\* ------------------------------- the server with its cleanup timer
\* the clock of TimerSpec advances by half the interval of the timer
TimerStep == (SweepIntervalMinutes \div 2) * MsPerMinute

\* the callback of setInterval(..., 30 * 60 * 1000) is due at time t
SweepDueBugNever(t) == FALSE

SweepDue(t) == t % (SweepIntervalMinutes * MsPerMinute) = 0

\* time passes; when the timer is due its callback runs: cleanupInactive(60),
\* and a line is logged when it deleted something
TimerTick ==
  LET t == now + TimerStep
      r == cleanupInactive(conversations, t, CleanupThresholdMinutes)
  IN /\ t <= MaxNowMinutes * MsPerMinute
     /\ now' = t
     /\ IF SweepDue(t)
          THEN /\ conversations' = r.convs
               /\ ret' = IF r.deletedCount > 0
                           THEN Returned("cleanupInactive",
                                         <<CleanupThresholdMinutes>>, TRUE,
                                         <<r.deletedCount>>)
                           ELSE NoRet
          ELSE UNCHANGED <<conversations, ret>>
     /\ UNCHANGED <<maxHistoryLength, configured, turn, appended>>

\* the clock is bounded: requests stop arriving early enough for the sweeps
\* that follow the last of them to happen before the clock stops
RequestDeadline ==
  (MaxNowMinutes - CleanupThresholdMinutes - SweepIntervalMinutes) * MsPerMinute

\* the requests of TimerSpec: one /api/chat request at a time
TimerRequest ==
  \/ \E r \in Rands, p \in PromptTypes, c \in Contexts : CreateSession(r, p, c)
  \/ \E i \in RequestIds, m \in Texts \cup {NoText} : ChatRequest(1, i, m)
  \/ ChatCompletionFails(1)
  \/ \E a \in Texts : ChatCompletionSucceeds(1, a)
  \/ \E i \in PathIds : ResetSession(i)
  \/ \E i \in PathIds : DeleteSession(i)

TimerNext ==
  \/ TimerTick
  \/ now <= RequestDeadline /\ TimerRequest

\* time does not stop (before the bound of the clock)
\* the history bound plays no part in expiry: TimerSpec runs with one value
TimerHistoryBound == 2

TimerInit ==
  /\ maxHistoryLength = TimerHistoryBound
  /\ conversations = << >>
  /\ now = 0
  /\ configured \in BOOLEAN
  /\ turn = [t \in Turns |-> IdleTurn]
  /\ ret = NoRet
  /\ appended = << >>

TimerSpec == TimerInit /\ [][TimerNext]_vars /\ WF_vars(TimerTick)

\* --------------------- the server with the history bound it ships with
DefaultInit ==
  /\ maxHistoryLength = DefaultMaxHistoryLength
  /\ conversations = << >>
  /\ now = 0
  /\ configured \in BOOLEAN
  /\ turn = [t \in Turns |-> IdleTurn]
  /\ ret = NoRet
  /\ appended = << >>

\* the session a chat request names holds at most MaxK messages (the
\* requests of DefaultSpec stop there; reaching the bound of 20 is TrimSpec's)
HasRoom(sessionId) ==
  sessionId \in DOMAIN conversations => Len(MessagesOf(sessionId)) <= MaxK

\* one /api/chat request at a time
DefaultNext ==
  \/ \E d \in LongDeltas : Tick(d)
  \/ \E r \in Rands, p \in PromptTypes, c \in Contexts : CreateSession(r, p, c)
  \/ \E i \in RequestIds, m \in Texts \cup {NoText} :
       HasRoom(i) /\ ChatRequest(1, i, m)
  \/ ChatCompletionFails(1)
  \/ \E a \in Texts : ChatCompletionSucceeds(1, a)
  \/ \E i \in PathIds : ResetSession(i)
  \/ \E i \in PathIds : DeleteSession(i)
  \/ CleanupTimer

DefaultSpec == DefaultInit /\ [][DefaultNext]_vars

\* ------------------------------------- what a caller does with a result
\* the parts of the stored session that the value returned by `op` shares
\* with the store (the same object, not a copy)
Shares(op) ==
  CASE op = "createConversation" -> {"messages", "metadata"}
    [] op = "getConversation" -> {"messages", "metadata"}
    [] op = "getStats" -> {"metadata"}
    [] op = "getMessages" -> {}
    [] op = "history" -> {}
    [] OTHER -> {}

\* the parts a returned value has
Parts(op) ==
  CASE op \in {"createConversation", "getConversation", "history"}
         -> {"messages", "metadata"}
    [] op = "getStats" -> {"metadata"}
    [] op = "getMessages" -> {"messages"}
    [] OTHER -> {}

\* GET /api/sessions/:sessionId/history: the body of the response
GetHistory(sessionId) ==
  /\ ret' = IF sessionId \in DOMAIN conversations
              THEN Returned("history", sessionId, TRUE,
                            [messages |-> conversations[sessionId].messages,
                             stats |-> getStats(conversations, sessionId)])
              ELSE Returned("history", sessionId, FALSE, << >>)
  /\ conversations' = OnRead(conversations, sessionId, now)
  /\ UNCHANGED <<maxHistoryLength, now, configured, turn, appended>>

\* the caller empties the message list of the value it was returned
\* (`value.messages.length = 0`) or sets a key of its metadata
\* (`value.metadata.seen = true`)
CallerMutates(part) ==
  /\ ret.found
  /\ part \in Parts(ret.op)
  /\ conversations' =
       IF part \in Shares(ret.op) /\ ret.arg \in DOMAIN conversations
         THEN IF part = "messages"
                THEN [conversations EXCEPT ![ret.arg].messages = << >>]
                ELSE [conversations EXCEPT ![ret.arg].metadata =
                        Merge(@, [seen |-> TRUE])]
         ELSE conversations
  /\ ret' = NoRet
  /\ UNCHANGED <<maxHistoryLength, now, configured, turn, appended>>

OwnershipNext ==
  \/ \E i \in CallerIds, p \in Prompts : CallCreateConversation(i, p)
  \/ \E i \in CallerIds : CallGetConversation(i)
  \/ \E i \in CallerIds, ro \in {"user", "assistant"}, c \in Texts :
       CallAddMessage(i, ro, c)
  \/ \E i \in CallerIds : CallGetMessages(i)
  \/ \E i \in CallerIds : CallGetStats(i)
  \/ \E i \in CallerIds : GetHistory(i)
  \/ \E i \in CallerIds : CallDeleteConversation(i)
  \/ \E part \in {"messages", "metadata"} : CallerMutates(part)

OwnershipSpec == Init /\ [][OwnershipNext]_vars

\* ------------- direct calls and the history request, with the sweep
ReadNext ==
  \/ MetaNext
  \/ \E i \in CallerIds : GetHistory(i)
  \/ CallCleanupInactive(CleanupThresholdMinutes)

ReadSpec == Init /\ [][ReadNext]_vars

\* ------------------------------------------------------------- claims

\* C1 (history bound): every stored session has between 1 and
\* maxHistoryLength messages and its first message has role system, in every
\* state reached by interleaved turns, resets, deletes and sweeps.
C1_HistoryBound ==
  \A i \in DOMAIN conversations :
    /\ Len(MessagesOf(i)) >= 1
    /\ Len(MessagesOf(i)) <= maxHistoryLength
    /\ MessagesOf(i)[1].role = "system"

\* a turn stored its reply in a session that is full: the user message that
\* preceded the reply made the history reach the bound, the reply exceeded it
C1_Witness ==
  \E t \in Turns :
    /\ turn[t].pc = "done" /\ turn[t].status = 200 /\ turn[t].stored
    /\ turn[t].sessionId \in DOMAIN conversations
    /\ Len(MessagesOf(turn[t].sessionId)) = maxHistoryLength
    /\ Last(MessagesOf(turn[t].sessionId)).role = "assistant"

\* C3 (turn failure preserves user input): the step of a turn that resumes
\* with a failed completion answers 500 and leaves the store as it was (no
\* assistant message, no rollback); when the history is still the one the
\* turn sent, it ends with the user message of the turn.
C3_TurnFailurePreservesUserInput ==
  [][\A t \in Turns :
       ChatCompletionFails(t) =>
         /\ turn'[t].pc = "done" /\ turn'[t].status = 500
         /\ conversations' = conversations
         /\ (getMessages(conversations, turn[t].sessionId) = turn[t].snapshot
             => /\ turn[t].sessionId \in DOMAIN conversations'
                /\ Last(conversations'[turn[t].sessionId].messages).role = "user"
                /\ Last(conversations'[turn[t].sessionId].messages).content
                     = turn[t].message)]_vars

C3_Witness ==
  \E t \in Turns :
    /\ turn[t].pc = "done" /\ turn[t].status = 500
    /\ turn[t].sessionId \in DOMAIN conversations
    /\ Last(MessagesOf(turn[t].sessionId)).role = "user"
    /\ Last(MessagesOf(turn[t].sessionId)).content = turn[t].message
    /\ CountRole(MessagesOf(turn[t].sessionId), "assistant") = 0

\* C4 (vanished session): the step of a turn that resumes with a successful
\* completion while its session is no longer in the store changes nothing in
\* the store and answers 200.
C4_VanishedSession ==
  [][\A t \in Turns, a \in Texts :
       (ChatCompletionSucceeds(t, a) /\ turn[t].sessionId \notin DOMAIN conversations)
         => /\ conversations' = conversations
            /\ turn'[t].pc = "done" /\ turn'[t].status = 200]_vars

C4_Witness ==
  \E t \in Turns :
    /\ turn[t].pc = "done" /\ turn[t].status = 200 /\ ~turn[t].stored
    /\ turn[t].sessionId \notin DOMAIN conversations

\* C8 (identifier uniqueness): a session creation stores the new session
\* under an id that no session of the store has.
C8_CreationNeverOverwrites ==
  [][\A r \in Rands, p \in PromptTypes, c \in Contexts :
       CreateSession(r, p, c) => SessionId(now, r) \notin DOMAIN conversations]_vars

\* C9 (turn validation order): a chat request is answered 400 exactly when
\* sessionId or message is missing, 404 exactly when both are present and the
\* session is unknown, 503 exactly when both are present, the session exists
\* and the completion client is not configured; a rejected request leaves the
\* store unchanged and does not reach the completion call, an accepted one
\* appends the user message and awaits the completion call.
C9_TurnValidationOrder ==
  [][\A t \in Turns :
       (turn'[t] # turn[t] /\ turn[t].pc # "awaiting") =>
         \A i \in RequestIds, m \in Texts \cup {NoText} :
           ChatRequest(t, i, m) =>
             LET present == i # NoId /\ m # NoText
                 exists == i \in DOMAIN conversations
                 rejected == turn'[t].status \in {400, 404, 503}
             IN /\ (turn'[t].status = 400) <=> ~present
                /\ (turn'[t].status = 404) <=> (present /\ ~exists)
                /\ (turn'[t].status = 503) <=> (present /\ exists /\ ~configured)
                /\ rejected => (conversations' = conversations /\ turn'[t].pc = "done")
                /\ ~rejected =>
                     /\ turn'[t].pc = "awaiting"
                     /\ Last(conversations'[i].messages) = Message("user", m, now)]_vars

\* a request that passed the first two checks was rejected by the third
C9_Witness ==
  \E t \in Turns :
    /\ turn[t].pc = "done" /\ turn[t].status = 503
    /\ conversations # << >>

\* the list `new` is the list `old` with the one message `msg` appended and
\* the bound H enforced
AppendedOne(old, new, msg, H) ==
  /\ Len(new) = Min(Len(old) + 1, H)
  /\ new[1] = old[1]
  /\ Last(new) = msg
  /\ \A k \in 2..(Len(new) - 1) : new[k] = old[Len(old) - (Len(new) - 1 - k)]

C2_TrimCorrectness ==
  LET n == Len(appended)
      H == maxHistoryLength
  IN n >= H =>
       MessagesOf(TrimId) = <<FreshSystemMessage>> \o SubSeq(appended, n - H + 2, n)

\* maxHistoryLength + k messages were appended with the default bound, k > 1
C2_Witness ==
  /\ maxHistoryLength = DefaultMaxHistoryLength
  /\ Len(appended) = DefaultMaxHistoryLength + MaxK
  /\ Len(MessagesOf(TrimId)) = DefaultMaxHistoryLength

\* C5 (expiry sweep): a call cleanupInactive(T) removes exactly the sessions
\* whose inactivity now - lastActivity is more than T minutes, leaves the
\* others as they were and returns the number removed.
C5_ExpirySweep ==
  [][ret'.op = "cleanupInactive" =>
       LET T == ret'.arg[1]
           expired == {i \in DOMAIN conversations :
                         now - conversations[i].lastActivity > T * MsPerMinute}
       IN /\ DOMAIN conversations' = DOMAIN conversations \ expired
          /\ \A i \in DOMAIN conversations' : conversations'[i] = conversations[i]
          /\ ret'.value[1] = Cardinality(expired)]_vars

\* a sweep with threshold 60 has just removed a session and kept one that
\* has been inactive for exactly 60 minutes
C5_Witness ==
  /\ ret.op = "cleanupInactive"
  /\ ret.arg[1] = CleanupThresholdMinutes
  /\ ret.value[1] >= 1
  /\ \E i \in DOMAIN conversations :
       now - conversations[i].lastActivity = CleanupThresholdMinutes * MsPerMinute

C7_CallerCannotChangeStore ==
  [][\A part \in {"messages", "metadata"} :
       CallerMutates(part) => conversations' = conversations]_vars

\* C11 (metadata merge): updateMetadata(id, partial) on a stored session
\* returns true and leaves a metadata whose keys are the old keys and those of
\* partial, each key of partial with the incoming value and every other key
\* with the value it had; {a:1} then {b:2} gives {a:1,b:2} and {a:3}
\* afterwards gives {a:3,b:2}. Nothing else of the store changes.
C11_MetadataMerge ==
  [][\A i \in CallerIds, p \in Partials :
       (CallUpdateMetadata(i, p) /\ i \in DOMAIN conversations) =>
         LET old == conversations[i].metadata
             new == conversations'[i].metadata
         IN /\ ret'.found
            /\ DOMAIN new = DOMAIN old \cup DOMAIN p
            /\ \A k \in DOMAIN p : new[k] = p[k]
            /\ \A k \in DOMAIN old \ DOMAIN p : new[k] = old[k]
            /\ (DOMAIN old = {"a"} /\ old.a = 1 /\ p = [b |-> 2])
                 => new = [a |-> 1, b |-> 2]
            /\ (DOMAIN old = {"a", "b"} /\ old.a = 1 /\ old.b = 2 /\ p = [a |-> 3])
                 => new = [a |-> 3, b |-> 2]
            /\ conversations' = [conversations EXCEPT ![i].metadata = new]]_vars

\* updateMetadata has just overwritten a in {a:1, b:2}
C11_Witness ==
  \E i \in DOMAIN conversations :
    /\ ret.op = "updateMetadata" /\ ret.found /\ ret.arg = i
    /\ DOMAIN conversations[i].metadata = {"a", "b"}
    /\ conversations[i].metadata.a = 3
    /\ conversations[i].metadata.b = 2

\* C12 (reset idempotence): a reset of a stored session, whatever its state,
\* returns true and leaves as its messages the one message it had at index 0,
\* of role system; a second reset right after the first returns true too and
\* leaves the store exactly as the first left it.
C12_ResetIdempotent ==
  [][\A i \in CallerIds :
       (CallResetConversation(i) /\ i \in DOMAIN conversations) =>
         /\ ret'.found
         /\ conversations'[i].messages = <<MessagesOf(i)[1]>>
         /\ conversations'[i].messages[1].role = "system"
         /\ i \in DOMAIN conversations'
         /\ resetConversation(conversations', i, now') = conversations']_vars

\* a reset has just returned true for a session created earlier
C12_Witness ==
  \E i \in DOMAIN conversations :
    /\ ret.op = "resetConversation" /\ ret.found /\ ret.arg = i
    /\ Len(MessagesOf(i)) = 1
    /\ conversations[i].lastActivity > conversations[i].createdAt

\* C13 (delete result): deleteConversation(id) returns true exactly when a
\* session was stored under id; afterwards no session is stored under id
\* (getConversation(id) is null, a second delete returns false) and the other
\* sessions are as they were.
C13_DeleteResult ==
  [][\A i \in CallerIds :
       CallDeleteConversation(i) =>
         /\ ret'.found <=> (i \in DOMAIN conversations)
         /\ i \notin DOMAIN conversations'
         /\ DOMAIN conversations' = DOMAIN conversations \ {i}
         /\ \A j \in DOMAIN conversations' : conversations'[j] = conversations[j]
         /\ ~deleteConversationResult(conversations', i)
         /\ deleteConversation(conversations', i) = conversations']_vars

\* a delete has just returned true and left the other session in the store
C13_Witness ==
  /\ ret.op = "deleteConversation" /\ ret.found
  /\ ret.arg \notin DOMAIN conversations
  /\ conversations # << >>

\* the instants of TimerSpec at which a request can arrive, the ids it creates
RequestTimes == {k * TimerStep : k \in 0..(RequestDeadline \div TimerStep)}
TimerIds == {SessionId(t, r) : t \in RequestTimes, r \in Rands}

\* C14 (automatic cleanup): with the timer running, a stored session whose
\* lastActivity stays the same (no append, no reset) is eventually out of the
\* store; and a step of the clock, sweep included, never removes or changes
\* a session whose inactivity at that time is at most 60 minutes.
C14_AutomaticCleanup ==
  /\ \A i \in TimerIds, ts \in RequestTimes :
       (i \in DOMAIN conversations /\ conversations[i].lastActivity = ts)
         ~> ~(i \in DOMAIN conversations /\ conversations[i].lastActivity = ts)
  /\ [][now' # now =>
          \A i \in DOMAIN conversations :
            now' - conversations[i].lastActivity
                <= CleanupThresholdMinutes * MsPerMinute
              => /\ i \in DOMAIN conversations'
                 /\ conversations'[i] = conversations[i]]_vars

\* the sweep at 90 minutes has removed a session: the sweep at 60 minutes,
\* when its inactivity was at most 60 minutes, had kept it
C14_Witness ==
  /\ now = (CleanupThresholdMinutes + SweepIntervalMinutes) * MsPerMinute
  /\ ret.op = "cleanupInactive" /\ ret.value[1] >= 1

\* C15 (successful turn): a created session holds one message, of role
\* system; a chat request accepted on it makes the history system, user; when
\* that turn resumes with a successful completion and nothing else was done
\* to the session, the history becomes system, user, assistant (the reply
\* appended at that step, not before), the response is 200 and getStats
\* reports userMessages = 1 and assistantMessages = 1.
C15_SuccessfulTurn ==
  [][/\ \A r \in Rands, p \in PromptTypes, c \in Contexts :
          CreateSession(r, p, c) =>
            /\ Len(conversations'[SessionId(now, r)].messages) = 1
            /\ conversations'[SessionId(now, r)].messages[1].role = "system"
     /\ \A i \in DOMAIN conversations, m \in Texts :
          (ChatRequest(1, i, m) /\ turn'[1].pc = "awaiting"
             /\ Len(MessagesOf(i)) = 1) =>
            conversations'[i].messages =
              <<MessagesOf(i)[1], Message("user", m, now)>>
     /\ \A a \in Texts :
          LET i == turn[1].sessionId
          IN (/\ ChatCompletionSucceeds(1, a)
              /\ i \in DOMAIN conversations
              /\ Len(MessagesOf(i)) = 2
              /\ getMessages(conversations, i) = turn[1].snapshot) =>
               LET new == conversations'[i].messages
                   st == getStats(conversations', i)
               IN /\ new = Append(MessagesOf(i), Message("assistant", a, now))
                  /\ <<new[1].role, new[2].role, new[3].role>>
                       = <<"system", "user", "assistant">>
                  /\ new[2].content = turn[1].message
                  /\ st.userMessages = 1 /\ st.assistantMessages = 1
                  /\ st.totalMessages = 2
                  /\ turn'[1].status = 200]_vars

\* with the bound of 20, the first turn of a session has stored its reply
C15_Witness ==
  /\ maxHistoryLength = DefaultMaxHistoryLength
  /\ turn[1].pc = "done" /\ turn[1].status = 200 /\ turn[1].stored
  /\ turn[1].sessionId \in DOMAIN conversations
  /\ Len(MessagesOf(turn[1].sessionId)) = 3
  /\ getStats(conversations, turn[1].sessionId).userMessages = 1
  /\ getStats(conversations, turn[1].sessionId).assistantMessages = 1

\* C16 (fixed system message): every stored session has at least one
\* message and its first message has role system; a step that is not a
\* creation (append with its trim, reset, metadata update, read, clock) leaves
\* the first message of every session that stays in the store as it was:
\* same role, content and timestamp.
C16_FixedSystemMessage ==
  /\ [](\A i \in DOMAIN conversations :
          Len(MessagesOf(i)) >= 1 /\ MessagesOf(i)[1].role = "system")
  /\ [][ret'.op # "createConversation" =>
          \A i \in DOMAIN conversations \cap DOMAIN conversations' :
            /\ Len(conversations'[i].messages) >= 1
            /\ conversations'[i].messages[1] = MessagesOf(i)[1]]_vars

\* a session that is full, was appended to after the clock advanced and had
\* its metadata updated still starts with the message stamped at creation
C16_Witness ==
  \E i \in DOMAIN conversations :
    /\ Len(MessagesOf(i)) = maxHistoryLength
    /\ DOMAIN conversations[i].metadata # {}
    /\ Last(MessagesOf(i)).timestamp > conversations[i].createdAt
    /\ MessagesOf(i)[1].timestamp = conversations[i].createdAt
    /\ MessagesOf(i)[1].role = "system"

\* a is b with some elements left out: the elements of a are elements of b
\* at increasing positions
RECURSIVE IsSubsequence(_, _)
IsSubsequence(a, b) ==
  IF a = << >> THEN TRUE
  ELSE IF b = << >> THEN FALSE
  ELSE IF Head(a) = Head(b) THEN IsSubsequence(Tail(a), Tail(b))
  ELSE IsSubsequence(a, Tail(b))

\* C17 (pure trim): in every state the messages of the session after the
\* first are, in order and each at most once, messages appended since the
\* creation or the last reset, with the role, content and timestamp they were
\* appended with; an append changes no message that stays in the list.
C17_PureTrim ==
  /\ [](IsSubsequence(Tail(MessagesOf(TrimId)), appended))
  /\ [][Len(appended') = Len(appended) + 1 =>
          LET old == MessagesOf(TrimId)
              new == conversations'[TrimId].messages
          IN /\ Last(new) = Last(appended')
             /\ IsSubsequence(SubSeq(new, 1, Len(new) - 1), old)]_vars

\* after a reset and a clock advance, appends have made the trim drop the
\* oldest of the messages appended since
C17_Witness ==
  /\ Len(appended) > maxHistoryLength - 1
  /\ Len(MessagesOf(TrimId)) = maxHistoryLength
  /\ conversations[TrimId].createdAt < appended[1].timestamp
  /\ appended[1].timestamp < Last(appended).timestamp

\* C18 (degenerate bound): with maxHistoryLength 1 or less, after any append
\* the history of the session is exactly the one system message built at
\* creation.
C18_DegenerateBound ==
  (maxHistoryLength <= 1 /\ appended # << >>)
    => MessagesOf(TrimId) = <<FreshSystemMessage>>

\* the operations of the store that take the id of a session
AbsentOps == {"addMessage", "updateMetadata", "resetConversation",
              "deleteConversation", "getStats", "getConversation", "getMessages"}

\* C19 (absence is a value): addMessage, updateMetadata, resetConversation,
\* deleteConversation, getStats, getConversation and getMessages called with
\* an id that is not in the store return the absent result (false, null, the
\* empty list) and leave the store as it was: no session is created.
C19_AbsenceIsAValue ==
  [][(ret'.op \in AbsentOps /\ ret'.arg \notin DOMAIN conversations) =>
       /\ ~ret'.found
       /\ ret'.value = << >>
       /\ conversations' = conversations]_vars

\* updateMetadata has just returned false for an id that is not in the store,
\* while a session is stored under another id
C19_Witness ==
  /\ ret.op = "updateMetadata" /\ ~ret.found
  /\ ret.arg \notin DOMAIN conversations
  /\ conversations # << >>

\* C20 (reset frame): a reset of a stored session leaves it in the store
\* with messages = [messages[0]] and lastActivity = now; its metadata, its
\* createdAt and its id are as they were.
C20_ResetFrame ==
  [][\A i \in CallerIds :
       (CallResetConversation(i) /\ i \in DOMAIN conversations) =>
         /\ DOMAIN conversations' = DOMAIN conversations
         /\ conversations'[i].messages = <<MessagesOf(i)[1]>>
         /\ conversations'[i].lastActivity = now
         /\ conversations'[i].metadata = conversations[i].metadata
         /\ conversations'[i].createdAt = conversations[i].createdAt
         /\ conversations'[i].id = conversations[i].id]_vars

\* a reset has just truncated a session that has metadata, at a time later
\* than its creation
C20_Witness ==
  \E i \in DOMAIN conversations :
    /\ ret.op = "resetConversation" /\ ret.found /\ ret.arg = i
    /\ DOMAIN conversations[i].metadata = {"a", "b"}
    /\ conversations[i].lastActivity = now
    /\ conversations[i].createdAt < now
    /\ MessagesOf(i)[1].timestamp = conversations[i].createdAt

\* C21 (timestamps): a creation leaves a session with createdAt =
\* lastActivity, one system message and empty metadata; no later step changes
\* the createdAt of a stored session; lastActivity >= createdAt in every
\* state.
C21_Timestamps ==
  /\ [](\A i \in DOMAIN conversations :
          conversations[i].lastActivity >= conversations[i].createdAt)
  /\ [][/\ ret'.op = "createConversation" =>
             /\ conversations'[MetaId].createdAt = conversations'[MetaId].lastActivity
             /\ Len(conversations'[MetaId].messages) = 1
             /\ conversations'[MetaId].messages[1].role = "system"
             /\ DOMAIN conversations'[MetaId].metadata = {}
        /\ ret'.op # "createConversation" =>
             \A i \in DOMAIN conversations \cap DOMAIN conversations' :
               conversations'[i].createdAt = conversations[i].createdAt]_vars

\* C21 amended: a creation leaves a session with one system message and
\* empty metadata whose createdAt and lastActivity are two successive reads
\* of the clock during the call: start <= timestamp of the system message <=
\* createdAt <= lastActivity <= end, all equal when the clock does not
\* advance during the call; no later step changes the createdAt of a stored
\* session; lastActivity >= createdAt in every state.
C21_TimestampsAmended ==
  /\ [](\A i \in DOMAIN conversations :
          conversations[i].lastActivity >= conversations[i].createdAt)
  /\ [][/\ ret'.op = "createConversation" =>
             LET c == conversations'[MetaId]
             IN /\ now <= c.messages[1].timestamp
                /\ c.messages[1].timestamp <= c.createdAt
                /\ c.createdAt <= c.lastActivity
                /\ c.lastActivity <= now'
                /\ now' = now => (c.createdAt = now /\ c.lastActivity = now)
                /\ Len(c.messages) = 1
                /\ c.messages[1].role = "system"
                /\ DOMAIN c.metadata = {}
        /\ ret'.op # "createConversation" =>
             \A i \in DOMAIN conversations \cap DOMAIN conversations' :
               conversations'[i].createdAt = conversations[i].createdAt]_vars

\* a creation has just returned a session whose lastActivity was read one
\* ms after its createdAt
C21_Witness ==
  /\ ret.op = "createConversation"
  /\ MetaId \in DOMAIN conversations
  /\ conversations[MetaId].lastActivity = conversations[MetaId].createdAt + 1
  /\ Len(MessagesOf(MetaId)) = 1

ReadOps == {"getConversation", "getMessages", "getStats", "history"}

\* C22 (pure reads): getConversation, getMessages and getStats, and the
\* history request built on them, leave the store as it was (messages,
\* metadata, createdAt and lastActivity of every session), so the sweep
\* removes after the read exactly what it would have removed before it.
C22_PureReads ==
  [][ret'.op \in ReadOps =>
       /\ conversations' = conversations
       /\ cleanupInactive(conversations', now', CleanupThresholdMinutes)
            = cleanupInactive(conversations, now, CleanupThresholdMinutes)]_vars

\* getStats has just returned the counts of a session inactive for more than
\* 60 minutes: the session is still due for removal
C22_Witness ==
  \E i \in DOMAIN conversations :
    /\ ret.op = "getStats" /\ ret.found /\ ret.arg = i
    /\ Inactive(conversations[i], now, CleanupThresholdMinutes)
    /\ ret.value.lastActivity = conversations[i].lastActivity

\* C23 (snapshot of a turn): the message list a turn sends to the completion
\* call has at most maxHistoryLength entries, starts with the system message
\* of its session and ends with the user message of that turn; it is the
\* history of the session as the append of that message left it.
C23_TurnSnapshot ==
  /\ [](\A t \in Turns :
          turn[t].pc = "awaiting" =>
            /\ Len(turn[t].snapshot) <= maxHistoryLength
            /\ turn[t].snapshot[1].role = "system"
            /\ Last(turn[t].snapshot)
                 = [role |-> "user", content |-> turn[t].message])
  /\ [][\A t \in Turns :
          (turn[t].pc # "awaiting" /\ turn'[t].pc = "awaiting") =>
            LET i == turn'[t].sessionId
            IN /\ i \in DOMAIN conversations
               /\ i \in DOMAIN conversations'
               /\ turn'[t].snapshot[1]
                    = [role |-> "system", content |-> MessagesOf(i)[1].content]
               /\ Len(turn'[t].snapshot) = Len(conversations'[i].messages)
               /\ \A k \in 1..Len(turn'[t].snapshot) :
                    turn'[t].snapshot[k]
                      = [role |-> conversations'[i].messages[k].role,
                         content |-> conversations'[i].messages[k].content]]_vars

\* a turn is awaiting the completion call with a snapshot as long as the
\* bound allows, taken from a session that held an earlier message
C23_Witness ==
  \E t \in Turns :
    /\ turn[t].pc = "awaiting"
    /\ Len(turn[t].snapshot) = maxHistoryLength
    /\ turn[t].retry
    /\ turn[t].sessionId \in DOMAIN conversations

\* C24 (reset against an in-flight turn): a turn was awaiting the completion
\* call when its session was reset, and no turn was started since (the
\* history is the single system message, without the user message of the
\* turn, and the last activity is later than the creation: the session was
\* reset, not created anew); when that turn resumes with a successful
\* completion the history stays the single system message.
C24_ResetDiscardsInFlightTurn ==
  [][\A t \in Turns, a \in Texts :
       (/\ ChatCompletionSucceeds(t, a)
        /\ turn[t].sessionId \in DOMAIN conversations
        /\ Len(MessagesOf(turn[t].sessionId)) = 1
        /\ conversations[turn[t].sessionId].lastActivity
             > conversations[turn[t].sessionId].createdAt)
         => conversations'[turn[t].sessionId].messages
              = MessagesOf(turn[t].sessionId)]_vars

\* every session stored under an id other than i is in the store after the
\* step exactly as before it, and no session appears under another id
OthersUnchanged(i) ==
  /\ DOMAIN conversations' \ {i} = DOMAIN conversations \ {i}
  /\ \A j \in DOMAIN conversations \ {i} : conversations'[j] = conversations[j]

\* C25 (session isolation): addMessage, updateMetadata, resetConversation
\* and deleteConversation called with an id, and each step of a turn on a
\* session (the request, the resumption after a failed or a successful
\* completion), leave every session with another id as it was: messages,
\* metadata, createdAt, lastActivity and presence in the store.
C25_SessionIsolation ==
  [][/\ \A i \in CallerIds :
          (\/ \E c \in Texts : CallAddMessage(i, "user", c)
           \/ CallUpdateMetadata(i, [a |-> 1])
           \/ CallResetConversation(i)
           \/ CallDeleteConversation(i)) => OthersUnchanged(i)
     /\ \A i \in RequestIds, m \in Texts \cup {NoText} :
          ChatRequest(1, i, m) => OthersUnchanged(i)
     /\ ChatCompletionFails(1) => OthersUnchanged(turn[1].sessionId)
     /\ \A a \in Texts :
          ChatCompletionSucceeds(1, a) => OthersUnchanged(turn[1].sessionId)]_vars

\* a turn has stored its reply in a session that also had its metadata
\* updated, after the clock advanced, while another session is as created
C25_Witness ==
  \E i, j \in DOMAIN conversations :
    /\ i # j
    /\ turn[1].pc = "done" /\ turn[1].status = 200 /\ turn[1].stored
    /\ turn[1].sessionId = i
    /\ DOMAIN conversations[i].metadata = {"a"}
    /\ conversations[i].lastActivity > conversations[j].lastActivity
    /\ Len(MessagesOf(j)) = 1
    /\ DOMAIN conversations[j].metadata = {}
    /\ conversations[j].lastActivity = conversations[j].createdAt

\* the ids the sweep of cleanupInactive(60) run at time t leaves in convs
KeptAt(convs, t) == DOMAIN cleanupInactive(convs, t, CleanupThresholdMinutes).convs

\* C26 (metadata update frame): updateMetadata on a stored session changes
\* nothing of the store but that session's metadata: its messages, createdAt
\* and lastActivity are as before, so the sweep, run now or once the
\* threshold has passed again, keeps and removes the same sessions as it
\* would have without the update.
C26_MetadataUpdateFrame ==
  [][\A i \in CallerIds, p \in Partials :
       (CallUpdateMetadata(i, p) /\ i \in DOMAIN conversations) =>
         /\ i \in DOMAIN conversations'
         /\ conversations'[i].messages = conversations[i].messages
         /\ conversations'[i].createdAt = conversations[i].createdAt
         /\ conversations'[i].lastActivity = conversations[i].lastActivity
         /\ conversations'
              = [conversations EXCEPT ![i].metadata = conversations'[i].metadata]
         /\ \A t \in {now', now' + AtThreshold, now' + PastThreshold} :
              KeptAt(conversations', t) = KeptAt(conversations, t)]_vars

\* updateMetadata has just returned true on a session with messages beyond
\* the system one that has been inactive for more than 60 minutes: the
\* session has the new metadata and is still due for removal
C26_Witness ==
  \E i \in DOMAIN conversations :
    /\ ret.op = "updateMetadata" /\ ret.found /\ ret.arg = i
    /\ DOMAIN conversations[i].metadata # {}
    /\ Len(MessagesOf(i)) > 1
    /\ Inactive(conversations[i], now, CleanupThresholdMinutes)
    /\ i \notin KeptAt(conversations, now)

====
